---- MODULE Spec2Model ----
(***************************************************************************)
(* Model of scripts/pdf_to_text.py: extract_text_from_pdf (one conversion) *)
(* and main (the batch driver).  Text is a sequence of one-character       *)
(* strings, a path is a pair <<directory, file name>>, the file system is  *)
(* two maps (source documents, written text files) and the console is the  *)
(* sequence of printed lines.                                              *)
(***************************************************************************)
EXTENDS Integers, Sequences, FiniteSets, TLC

VARIABLES
    srcFiles,       \* path -> document: what PyPDF2 finds in each source file
    files,          \* path -> text: the text files that exist, with contents
    textDirExists,  \* whether the directory text_dir exists
    console,        \* the lines printed so far
    pc,             \* position of the single thread of control
    pdf_files, idx, \* main: the sorted list and the position of the for loop
    pdf_path, output_path,               \* arguments of the current call
    pdf_reader, page_num, text, exc,     \* locals of the current call
    result,         \* value returned by the last call
    before,         \* observation: `files` when the current call was entered
    seen            \* observation: <<source, destination>> -> the destination's
                    \* contents after the last earlier successful conversion

vars == <<srcFiles, files, textDirExists, console, pc, pdf_files, idx,
          pdf_path, output_path, pdf_reader, page_num, text, exc, result,
          before, seen>>

-----------------------------------------------------------------------------
(* Bounds of the model *)

\* largest number of pages of a document handed to a single conversion
MaxPages == 2
\* largest number of entries of the specification directory in a batch run
MaxFiles == 3

-----------------------------------------------------------------------------
(* Text helpers *)

RECURSIVE Concat(_)
Concat(ss) == IF ss = <<>> THEN <<>> ELSE Head(ss) \o Concat(Tail(ss))

Prefix(s, k) == SubSeq(s, 1, k)

StartsWithAt(s, i, p) ==
    /\ i + Len(p) - 1 <= Len(s)
    /\ SubSeq(s, i, i + Len(p) - 1) = p

DigitChars == <<"0", "1", "2", "3", "4", "5", "6", "7", "8", "9">>

IsDigit(c) == \E d \in 1..10 : DigitChars[d] = c

DigitValue(c) == (CHOOSE d \in 1..10 : DigitChars[d] = c) - 1

\* str(n) for n >= 0, as the f-string formats an int
RECURSIVE Dec(_)
Dec(n) == IF n < 10 THEN <<DigitChars[n + 1]>>
          ELSE Dec(n \div 10) \o <<DigitChars[(n % 10) + 1]>>

-----------------------------------------------------------------------------
(* Paths *)

spec_dir == "/Users/xiaoyongwen/UCIe/docs/spec"
text_dir == "/Users/xiaoyongwen/UCIe/docs/spec/text"

Join(dir, name) == <<dir, name>>
DirOf(path) == path[1]
NameOf(path) == path[2]

-----------------------------------------------------------------------------
(* Documents: what the PDF library makes of a source file *)

Page(t) == [ok |-> TRUE, text |-> t]
FailingPage == [ok |-> FALSE, text |-> <<>>]

Unreadable == [readable |-> FALSE, parses |-> FALSE, pages |-> <<>>]
Corrupt == [readable |-> TRUE, parses |-> FALSE, pages |-> <<>>]
Pdf(pages) == [readable |-> TRUE, parses |-> TRUE, pages |-> pages]

\* open(pdf_path, 'rb') of a path that names no file fails like an unreadable one
Lookup(path) == IF path \in DOMAIN srcFiles THEN srcFiles[path] ELSE Unreadable

-----------------------------------------------------------------------------
(* extract_text_from_pdf *)

MARKER_HEAD == <<"-", "-", "-", " ", "P", "a", "g", "e", " ">>
MARKER_TAIL == <<" ", "-", "-", "-">>

PageMarker_OffByOne(n) ==
    <<"\n">> \o MARKER_HEAD \o Dec(n) \o MARKER_TAIL \o <<"\n">>

\* f"\n--- Page {page_num + 1} ---\n"
PageMarker(n) ==
    <<"\n">> \o MARKER_HEAD \o Dec(n + 1) \o MARKER_TAIL \o <<"\n">>

NewText_Carried == text

\* text = ""
NewText == <<>>

AppendPage_Overwrite(t, marker, body) == marker \o body

\* text += f"\n--- Page ... ---\n"; text += page.extract_text()
AppendPage(t, marker, body) == t \o marker \o body

LoopDone_OneShort(n, len) == n >= len - 1

\* for page_num in range(len(pdf_reader.pages)): the loop is over
LoopDone(n, len) == n >= len

OpenForWrite_Append(path) ==
    [p \in DOMAIN files \cup {path} |->
        IF p \in DOMAIN files THEN files[p] ELSE <<>>]

\* open(output_path, 'w'): the file is created, or truncated if it exists
OpenForWrite(path) ==
    [p \in DOMAIN files \cup {path} |->
        IF p = path THEN <<>> ELSE files[p]]

\* how much of the text a write that fails may leave in the file
PartialWrites(t) == {0, Len(t) \div 2}

ConvertedLine(src, dst) == <<"Converted", src, dst>>
ErrorLine(src, msg) == <<"Error converting", src, msg>>

Report_Silent(src, dst) == console

\* print(f"Converted: {pdf_path} -> {output_path}")
Report(src, dst) == Append(console, ConvertedLine(src, dst))

Caught_OnlyIOError(e) == e \in {"open_src", "open_dst", "write"}

\* except Exception: every failure of the library or of the file system
Caught(e) == TRUE

main_vars == <<pdf_files, idx>>
obs_vars == <<before, seen>>
env_vars == <<srcFiles, textDirExists>>

\* with open(pdf_path, 'rb') as file:
OpenSource ==
    /\ pc = "open_src"
    /\ IF Lookup(pdf_path).readable
         THEN pc' = "parse" /\ exc' = exc
         ELSE pc' = "except" /\ exc' = "open_src"
    /\ UNCHANGED <<env_vars, files, console, main_vars, pdf_path, output_path,
                   pdf_reader, page_num, text, result, obs_vars>>

\* pdf_reader = PyPDF2.PdfReader(file); text = ""; len(pdf_reader.pages)
ParsePdf ==
    /\ pc = "parse"
    /\ IF Lookup(pdf_path).parses
         THEN /\ pdf_reader' = Lookup(pdf_path).pages
              /\ text' = NewText
              /\ page_num' = 0
              /\ pc' = "loop"
              /\ exc' = exc
         ELSE /\ pc' = "except"
              /\ exc' = "parse"
              /\ UNCHANGED <<pdf_reader, text, page_num>>
    /\ UNCHANGED <<env_vars, files, console, main_vars, pdf_path, output_path,
                   result, obs_vars>>

\* one iteration: the marker is appended, then the page's text or the failure
ExtractPage ==
    /\ pc = "loop"
    /\ ~LoopDone(page_num, Len(pdf_reader))
    /\ LET page == pdf_reader[page_num + 1]
       IN IF page.ok
            THEN /\ text' = AppendPage(text, PageMarker(page_num), page.text)
                 /\ page_num' = page_num + 1
                 /\ pc' = "loop"
                 /\ exc' = exc
            ELSE /\ text' = AppendPage(text, PageMarker(page_num), <<>>)
                 /\ page_num' = page_num
                 /\ pc' = "except"
                 /\ exc' = "extract"
    /\ UNCHANGED <<env_vars, files, console, main_vars, pdf_path, output_path,
                   pdf_reader, result, obs_vars>>

\* with open(output_path, 'w', encoding='utf-8') as text_file:
OpenDest ==
    /\ pc = "loop"
    /\ LoopDone(page_num, Len(pdf_reader))
    /\ \E ok \in BOOLEAN :
         IF ok /\ (DirOf(output_path) = text_dir => textDirExists)
           THEN /\ files' = OpenForWrite(output_path)
                /\ pc' = "write"
                /\ exc' = exc
           ELSE /\ files' = files
                /\ pc' = "except"
                /\ exc' = "open_dst"
    /\ UNCHANGED <<env_vars, console, main_vars, pdf_path, output_path,
                   pdf_reader, page_num, text, result, obs_vars>>

\* text_file.write(text), and the close that flushes it
WriteText ==
    /\ pc = "write"
    /\ \/ /\ files' = [files EXCEPT ![output_path] = @ \o text]
          /\ pc' = "report"
          /\ exc' = exc
       \/ \E k \in PartialWrites(text) :
            /\ files' = [files EXCEPT ![output_path] = @ \o Prefix(text, k)]
            /\ pc' = "except"
            /\ exc' = "write"
    /\ UNCHANGED <<env_vars, console, main_vars, pdf_path, output_path,
                   pdf_reader, page_num, text, result, obs_vars>>

\* print(f"Converted: ..."); return True
ReportSuccess ==
    /\ pc = "report"
    /\ console' = Report(pdf_path, output_path)
    /\ result' = "True"
    /\ pc' = "returned"
    /\ UNCHANGED <<env_vars, files, main_vars, pdf_path, output_path,
                   pdf_reader, page_num, text, exc, obs_vars>>

\* except Exception as e: print(f"Error converting ..."); return False
ExceptHandler ==
    /\ pc = "except"
    /\ IF Caught(exc)
         THEN /\ console' = Append(console, ErrorLine(pdf_path, exc))
              /\ result' = "False"
              /\ pc' = "returned"
         ELSE /\ console' = console
              /\ result' = result
              /\ pc' = "crashed"
    /\ UNCHANGED <<env_vars, files, main_vars, pdf_path, output_path,
                   pdf_reader, page_num, text, exc, obs_vars>>

Convert ==
    \/ OpenSource
    \/ ParsePdf
    \/ ExtractPage
    \/ OpenDest
    \/ WriteText
    \/ ReportSuccess
    \/ ExceptHandler

-----------------------------------------------------------------------------
(* Single conversions: extract_text_from_pdf called with any source and    *)
(* destination, any number of times, each call with a fresh capture of *)
(* the console.                                                            *)

A_PDF == Join(spec_dir, <<"a", ".", "p", "d", "f">>)
B_PDF == Join(spec_dir, <<"b", ".", "p", "d", "f">>)
OUT_TXT == Join(text_dir, <<"o", "u", "t", ".", "t", "x", "t">>)
ALT_TXT == Join(text_dir, <<"a", "l", "t", ".", "t", "x", "t">>)

Sources == {A_PDF, B_PDF}
Dests == {OUT_TXT, ALT_TXT}

OldText == <<"o", "l", "d">>
MarkerShaped == MARKER_HEAD \o <<"1">> \o MARKER_TAIL

HalfMarker == MARKER_HEAD \o <<"2">>

PageTexts == { <<>>, <<"a", "\n">>, MarkerShaped, HalfMarker }

RECURSIVE TextSeqs(_)
TextSeqs(n) ==
    IF n = 0 THEN { <<>> }
    ELSE { Append(s, Page(t)) : s \in TextSeqs(n - 1), t \in PageTexts }

\* every document of at most MaxPages pages; a page that fails is the last
\* one, the pages after it being never looked at
AllDocs ==
    {Unreadable, Corrupt}
    \cup UNION { {Pdf(s) : s \in TextSeqs(n)} : n \in 0..MaxPages }
    \cup UNION { {Pdf(Append(s, FailingPage)) : s \in TextSeqs(n - 1)}
                 : n \in 1..MaxPages }

OtherDoc == Pdf(<<Page(<<"b">>)>>)

None == <<"none">>

InitCalls ==
    /\ \E d \in AllDocs : srcFiles = (A_PDF :> d) @@ (B_PDF :> OtherDoc)
    /\ files \in { <<>>, (OUT_TXT :> OldText) }
    /\ textDirExists = TRUE
    /\ console = <<>>
    /\ pc = "idle"
    /\ pdf_files = <<>>
    /\ idx = 0
    /\ pdf_path = A_PDF
    /\ output_path = OUT_TXT
    /\ pdf_reader = <<>>
    /\ page_num = 0
    /\ text = <<>>
    /\ exc = "none"
    /\ result = "none"
    /\ before = files
    /\ seen = [c \in Sources \X Dests |-> None]

\* extract_text_from_pdf(src, dst) is called
Call ==
    /\ pc \in {"idle", "returned"}
    /\ \E src \in Sources, dst \in Dests :
         /\ pdf_path' = src
         /\ output_path' = dst
    /\ pc' = "open_src"
    /\ console' = <<>>
    /\ result' = "none"
    /\ exc' = "none"
    /\ before' = files
    /\ seen' = IF result = "True"
                 THEN [seen EXCEPT ![<<pdf_path, output_path>>] = files[output_path]]
                 ELSE seen
    /\ UNCHANGED <<env_vars, files, main_vars, pdf_reader, page_num, text>>

NextCalls == Call \/ Convert

SpecCalls == InitCalls /\ [][NextCalls]_vars

-----------------------------------------------------------------------------
(* main: the batch run over the specification directory *)

PATTERN_MID == <<"_", "P", "D", "F", "s", "a", "m", "_", "U", "C", "I", "e", "_",
                 "S", "p", "e", "c", "i", "f", "i", "c", "a", "t", "i", "o", "n",
                 "_">>
DOT_PDF == <<".", "p", "d", "f">>
OUT_HEAD == <<"u", "c", "i", "e", "_", "s", "p", "e", "c", "_", "p", "a", "g",
              "e", "s", "_">>
DOT_TXT == <<".", "t", "x", "t">>

\* glob's "*_PDFsam_UCIe_Specification_*.pdf": each * stands for any text,
\* and a name that starts with a dot is never matched
GlobMatch(name) ==
    /\ name # <<>>
    /\ name[1] # "."
    /\ Len(name) >= Len(DOT_PDF)
    /\ SubSeq(name, Len(name) - Len(DOT_PDF) + 1, Len(name)) = DOT_PDF
    /\ \E i \in 1..Len(name) :
         /\ StartsWithAt(name, i, PATTERN_MID)
         /\ i + Len(PATTERN_MID) - 1 <= Len(name) - Len(DOT_PDF)

\* code points of the characters of the file names
Ord(c) ==
    CASE c = "." -> 46 [] c = "0" -> 48 [] c = "1" -> 49 [] c = "2" -> 50
      [] c = "5" -> 53 [] c = "7" -> 55 [] c = "C" -> 67 [] c = "D" -> 68
      [] c = "F" -> 70 [] c = "I" -> 73 [] c = "P" -> 80 [] c = "S" -> 83
      [] c = "U" -> 85 [] c = "_" -> 95 [] c = "a" -> 97 [] c = "c" -> 99
      [] c = "d" -> 100 [] c = "e" -> 101 [] c = "f" -> 102 [] c = "i" -> 105
      [] c = "m" -> 109 [] c = "n" -> 110 [] c = "o" -> 111 [] c = "p" -> 112
      [] c = "s" -> 115 [] c = "t" -> 116

\* s < t as Python compares str: by the first differing code point, a proper
\* prefix being the smaller
RECURSIVE StrLess(_, _)
StrLess(s, t) ==
    IF t = <<>> THEN FALSE
    ELSE IF s = <<>> THEN TRUE
    ELSE IF Head(s) = Head(t) THEN StrLess(Tail(s), Tail(t))
    ELSE Ord(Head(s)) < Ord(Head(t))

\* the paths of one glob share their directory: the names decide
PathLess(p, q) == StrLess(NameOf(p), NameOf(q))

RECURSIVE Insert(_, _)
Insert(x, sorted) ==
    IF sorted = <<>> THEN <<x>>
    ELSE IF PathLess(x, Head(sorted)) THEN <<x>> \o sorted
    ELSE <<Head(sorted)>> \o Insert(x, Tail(sorted))

RECURSIVE SortPaths(_)
SortPaths_Unsorted(ps) == ps

\* pdf_files.sort()
SortPaths(ps) ==
    IF ps = <<>> THEN <<>>
    ELSE CHOOSE r \in {Insert(Head(ps), t) : t \in {SortPaths(Tail(ps))}} : TRUE

RECURSIVE LastIndexOf(_, _, _)
LastIndexOf(s, c, i) ==
    IF i = 0 THEN 0 ELSE IF s[i] = c THEN i ELSE LastIndexOf(s, c, i - 1)

\* Path.stem: the name up to its last dot, unless that dot is the first or
\* the last character
Stem(name) ==
    LET i == LastIndexOf(name, ".", Len(name))
    IN IF 1 < i /\ i < Len(name) THEN Prefix(name, i - 1) ELSE name

RECURSIVE SplitFrom(_, _, _, _, _)
SplitFrom(s, c, i, cur, done) ==
    IF i > Len(s) THEN Append(done, cur)
    ELSE IF s[i] = c THEN SplitFrom(s, c, i + 1, <<>>, Append(done, cur))
    ELSE SplitFrom(s, c, i + 1, Append(cur, s[i]), done)

\* str.split(c): the pieces between the occurrences of c
SplitOn(s, c) == SplitFrom(s, c, 1, <<>>, <<>>)

FirstToken_Second(stem) == SplitOn(stem, "_")[2]

\* filename.split('_')[0]
FirstToken(stem) == SplitOn(stem, "_")[1]

\* text_dir / f"ucie_spec_pages_{page_info}.txt"
TextPath(pdf_file) ==
    Join(text_dir, OUT_HEAD \o FirstToken(Stem(NameOf(pdf_file))) \o DOT_TXT)

FoundLine(n) == <<"Found", n>>
CompleteLine == <<"Conversion complete!">>
SavedLine(dir) == <<"Text files saved in", dir>>

call_vars == <<pdf_path, output_path, pdf_reader, page_num, text, exc, result>>

\* text_dir.mkdir(exist_ok=True); spec_dir, which holds the sources, exists
MakeTextDir ==
    /\ pc = "main"
    /\ textDirExists' = TRUE
    /\ pc' = "glob"
    /\ UNCHANGED <<srcFiles, files, console, main_vars, call_vars, obs_vars>>

Matches == {p \in DOMAIN srcFiles : DirOf(p) = spec_dir /\ GlobMatch(NameOf(p))}

Orders(S) ==
    {s \in [1..Cardinality(S) -> S] : \A i, j \in DOMAIN s : s[i] = s[j] => i = j}

\* pdf_files = glob.glob(...): the matches, in whatever order the directory
\* yields them
GlobPdfFiles ==
    /\ pc = "glob"
    /\ pdf_files' \in Orders(Matches)
    /\ pc' = "sort"
    /\ UNCHANGED <<env_vars, files, console, idx, call_vars, obs_vars>>

\* pdf_files.sort(); print(f"Found {len(pdf_files)} PDF files to convert")
SortAndAnnounce ==
    /\ pc = "sort"
    /\ pdf_files' = SortPaths(pdf_files)
    /\ console' = Append(console, FoundLine(Len(pdf_files)))
    /\ idx' = 0
    /\ pc' = "for"
    /\ UNCHANGED <<env_vars, files, call_vars, obs_vars>>

\* for pdf_file in pdf_files: ... extract_text_from_pdf(pdf_file, text_path)
ConvertNext ==
    /\ pc \in {"for", "returned"}
    /\ idx < Len(pdf_files)
    /\ idx' = idx + 1
    /\ pdf_path' = pdf_files[idx + 1]
    /\ output_path' = TextPath(pdf_files[idx + 1])
    /\ result' = "none"
    /\ exc' = "none"
    /\ before' = files
    /\ pc' = "open_src"
    /\ UNCHANGED <<env_vars, files, console, pdf_files, pdf_reader, page_num,
                   text, seen>>

\* print("\nConversion complete!"); print(f"Text files saved in: {text_dir}")
Summary ==
    /\ pc \in {"for", "returned"}
    /\ idx >= Len(pdf_files)
    /\ console' = console \o <<CompleteLine, SavedLine(text_dir)>>
    /\ pc' = "done"
    /\ UNCHANGED <<env_vars, files, main_vars, call_vars, obs_vars>>

N005_10 == <<"0", "0", "5">> \o PATTERN_MID \o <<"1", ".", "0">> \o DOT_PDF
N005_11 == <<"0", "0", "5">> \o PATTERN_MID \o <<"1", ".", "1">> \o DOT_PDF
N017_10 == <<"0", "1", "7">> \o PATTERN_MID \o <<"1", ".", "0">> \o DOT_PDF
N1_2 == <<"1", "_", "2">> \o PATTERN_MID \o DOT_PDF
NOTES == <<"n", "o", "t", "e", "s">> \o DOT_PDF

DirNames == {N005_10, N005_11, N017_10, N1_2, NOTES}

OUT_005 == Join(text_dir, OUT_HEAD \o <<"0", "0", "5">> \o DOT_TXT)

BatchDocs ==
    { Unreadable, Corrupt, Pdf(<<>>), Pdf(<<Page(<<"a", "\n">>)>>),
      Pdf(<<Page(<<"b">>), FailingPage>>) }

\* the directory holds at most MaxFiles entries; the one that the pattern
\* does not match is never opened, so a single document stands for it
Listings ==
    UNION { [ {Join(spec_dir, n) : n \in S} ->  BatchDocs ]
            : S \in {T \in SUBSET DirNames : Cardinality(T) <= MaxFiles} }

Init ==
    /\ srcFiles \in {l \in Listings :
                       Join(spec_dir, NOTES) \in DOMAIN l =>
                           l[Join(spec_dir, NOTES)] = Pdf(<<>>)}
    /\ \/ textDirExists = FALSE /\ files = <<>>
       \/ textDirExists = TRUE /\ files = (OUT_005 :> OldText)
    /\ console = <<>>
    /\ pc = "main"
    /\ pdf_files = <<>>
    /\ idx = 0
    /\ pdf_path = <<>>
    /\ output_path = <<>>
    /\ pdf_reader = <<>>
    /\ page_num = 0
    /\ text = <<>>
    /\ exc = "none"
    /\ result = "none"
    /\ before = files
    /\ seen = <<>>

Next ==
    \/ MakeTextDir
    \/ GlobPdfFiles
    \/ SortAndAnnounce
    \/ ConvertNext
    \/ Summary
    \/ Convert

Spec == Init /\ [][Next]_vars

\* the interpreter runs the one thread until it ends
FairSpec == Spec /\ WF_vars(Next)

-----------------------------------------------------------------------------
(* Properties of a single conversion (checked under SpecCalls) *)

Source == Lookup(pdf_path)

Extractable(doc) ==
    /\ doc.readable
    /\ doc.parses
    /\ \A i \in 1..Len(doc.pages) : doc.pages[i].ok

Succeeded == pc = "returned" /\ result = "True"

Written == IF output_path \in DOMAIN files THEN files[output_path] ELSE None

\* marker line, newline, page text, for N = 1..P, nothing else
MarkerThenText(pages) ==
    Concat([i \in 1..Len(pages) |->
              MARKER_HEAD \o Dec(i) \o MARKER_TAIL \o <<"\n">> \o pages[i].text])

\* newline, marker line, newline, page text, for N = 1..P
NewlineMarkerThenText(pages) ==
    Concat([i \in 1..Len(pages) |->
              <<"\n">> \o MARKER_HEAD \o Dec(i) \o MARKER_TAIL \o <<"\n">>
              \o pages[i].text])

\* C1 as stated: a successful conversion writes exactly, for N = 1..P in page
\* order, the marker line `--- Page N ---`, a newline and t_N, with nothing
\* before the first marker and nothing between a page's text and the next
\* marker.
C1_MarkerFirst ==
    Succeeded => Written = MarkerThenText(Source.pages)

\* C1 amended: a successful conversion writes exactly, for N = 1..P in page
\* order, a newline, the marker line `--- Page N ---`, a newline and t_N: one
\* newline precedes every marker, the first included, and nothing else is
\* added, omitted, duplicated or reordered.
C1_NewlineBeforeMarker ==
    Succeeded => Written = NewlineMarkerThenText(Source.pages)

C1_Witness ==
    /\ Succeeded
    /\ Len(Source.pages) = 2
    /\ Source.pages[1].text = <<"a", "\n">>
    /\ Written # <<>>

RECURSIVE DigitRun(_, _)
DigitRun(s, j) ==
    IF j <= Len(s) /\ IsDigit(s[j]) THEN 1 + DigitRun(s, j + 1) ELSE 0

RECURSIVE Number(_, _, _)
Number(s, j, n) ==
    IF n = 0 THEN 0 ELSE 10 * Number(s, j, n - 1) + DigitValue(s[j + n - 1])

\* an occurrence of the pattern `--- Page k ---` starts at position i of s
MarkerAt(s, i) ==
    /\ StartsWithAt(s, i, MARKER_HEAD)
    /\ DigitRun(s, i + Len(MARKER_HEAD)) >= 1
    /\ StartsWithAt(s, i + Len(MARKER_HEAD) + DigitRun(s, i + Len(MARKER_HEAD)),
                    MARKER_TAIL)

RECURSIVE MarkersFrom(_, _)
MarkersFrom(s, i) ==
    IF i > Len(s) THEN <<>>
    ELSE IF MarkerAt(s, i)
           THEN <<Number(s, i + Len(MARKER_HEAD),
                         DigitRun(s, i + Len(MARKER_HEAD)))>>
                \o MarkersFrom(s, i + 1)
           ELSE MarkersFrom(s, i + 1)

\* the numbers k of the occurrences of `--- Page k ---` in s, left to right
MarkerNumbers(s) == MarkersFrom(s, 1)

\* C2 as stated: for N >= 2 pages and any page texts, marker-shaped ones
\* included, the output holds exactly N occurrences of `--- Page k ---`, with
\* k = 1, 2, ..., N in this order.
C2_ExactlyN ==
    Succeeded /\ Len(Source.pages) >= 2 =>
        MarkerNumbers(Written) = [k \in 1..Len(Source.pages) |-> k]

\* C2 amended: for N >= 2 pages the occurrences of `--- Page k ---` in the
\* output are, left to right, for each page i = 1..N the inserted marker i
\* followed by the occurrences inside t_i; so there are exactly N of them,
\* k = 1..N ascending, when no page text holds marker-shaped text, and more
\* than N otherwise.
C2_InsertedMarkers ==
    Succeeded /\ Len(Source.pages) >= 2 =>
        LET pages == Source.pages
            inPage(i) == MarkerNumbers(pages[i].text)
        IN /\ MarkerNumbers(Written) =
                 Concat([i \in 1..Len(pages) |-> <<i>> \o inPage(i)])
           /\ (\A i \in 1..Len(pages) : inPage(i) = <<>>) =>
                 MarkerNumbers(Written) = [k \in 1..Len(pages) |-> k]
           /\ (\E i \in 1..Len(pages) : inPage(i) # <<>>) =>
                 Len(MarkerNumbers(Written)) > Len(pages)

C2_Witness ==
    /\ Succeeded
    /\ Len(Source.pages) = 2
    /\ Source.pages[1].text = MarkerShaped
    /\ Source.pages[2].text = HalfMarker
    /\ Len(MarkerNumbers(Written)) = 3

\* C3: a conversion that fails at opening the source, at parsing or at the
\* extraction of any page returns False and leaves every text file as it was
\* when the call was entered (absent stays absent, contents stay the same);
\* the destination is open for writing only once every page is extracted.
C3_ExtractionFailureLeavesDestination ==
    /\ pc \in {"returned", "crashed"} /\ ~Extractable(Source) =>
          /\ result = "False"
          /\ files = before
          /\ console[Len(console)][3] \in {"open_src", "parse", "extract"}
    /\ pc \in {"open_src", "parse", "loop"} => files = before
    /\ pc = "write" =>
          /\ Extractable(Source)
          /\ page_num = Len(Source.pages)

C3_Witness ==
    /\ pc = "returned"
    /\ result = "False"
    /\ Len(Source.pages) = 2
    /\ Source.pages[1].ok
    /\ ~Source.pages[2].ok
    /\ before = (OUT_TXT :> OldText)
    /\ files = before

ZeroPages(doc) == doc.readable /\ doc.parses /\ doc.pages = <<>>

\* C8: for a document that parses and has zero pages the call returns True
\* and the destination then exists and is empty, whatever it held before;
\* the one other outcome is a failure of the destination's own open or write.
C8_ZeroPagesEmptyFile ==
    pc = "returned" /\ ZeroPages(Source) =>
        \/ /\ result = "True"
           /\ output_path \in DOMAIN files
           /\ files[output_path] = <<>>
        \/ /\ result = "False"
           /\ console[Len(console)][3] \in {"open_dst", "write"}

C8_Witness ==
    /\ Succeeded
    /\ ZeroPages(Source)
    /\ before = (OUT_TXT :> OldText)
    /\ files[OUT_TXT] = <<>>

\* C9: when a conversion of a source to a destination succeeds and an
\* earlier conversion of the same source to it succeeded, the destination holds
\* what it held after the earlier one, whatever it held before either call
\* and whatever was converted in between.
C9_SameOutputTwice ==
    Succeeded /\ seen[<<pdf_path, output_path>>] # None =>
        Written = seen[<<pdf_path, output_path>>]

C9_Witness ==
    /\ Succeeded
    /\ pdf_path = A_PDF
    /\ output_path = OUT_TXT
    /\ seen[<<A_PDF, OUT_TXT>>] \notin {None, <<>>}
    /\ seen[<<B_PDF, OUT_TXT>>] # None
    /\ before # files

\* C10: a call prints nothing until it ends and exactly one line when it
\* ends: with True the success line naming source and destination, the
\* destination then holding the whole text; with False the error line naming
\* the source and the failure; a source that cannot be opened, parsed or
\* extracted, or a failed write, never ends in the success line.
C10_OneLineMatchingResult ==
    /\ pc \in {"open_src", "parse", "loop", "write", "report", "except"} =>
          console = <<>>
    /\ pc = "report" => Written = text
    /\ pc = "except" => exc \in {"open_src", "parse", "extract", "open_dst", "write"}
    /\ pc = "returned" =>
          /\ Len(console) = 1
          /\ \/ /\ result = "True"
                /\ console[1] = ConvertedLine(pdf_path, output_path)
                /\ Extractable(Source)
                /\ Written = text
             \/ /\ result = "False"
                /\ console[1] = ErrorLine(pdf_path, exc)
                /\ exc \in {"open_src", "parse", "extract", "open_dst", "write"}

C10_Witness ==
    /\ pc = "returned"
    /\ result = "False"
    /\ exc = "write"
    /\ Extractable(Source)
    /\ Written # text

-----------------------------------------------------------------------------
(* Properties of the batch run (checked under Spec and FairSpec) *)

IsCallLine(l) == l[1] \in {"Converted", "Error converting"}

\* the sources of the calls made so far, in the order of their console lines
Attempts == LET calls == SelectSeq(console, IsCallLine)
            IN [i \in 1..Len(calls) |-> calls[i][2]]

ConvertedLines == {i \in 1..Len(console) : console[i][1] = "Converted"}

Ascending(ps) ==
    \A i, j \in 1..Len(ps) : i < j => StrLess(NameOf(ps[i]), NameOf(ps[j]))

EndsWith(name, tail) ==
    /\ Len(name) >= Len(tail)
    /\ SubSeq(name, Len(name) - Len(tail) + 1, Len(name)) = tail

\* the directory entries named <any>_PDFsam_UCIe_Specification_<any>.pdf
Matching ==
    {p \in DOMAIN srcFiles :
        /\ NameOf(p)[1] # "."
        /\ \E k \in 0..Len(NameOf(p)), m \in 0..Len(NameOf(p)) :
              /\ k + Len(PATTERN_MID) + m + Len(DOT_PDF) = Len(NameOf(p))
              /\ SubSeq(NameOf(p), k + 1, k + Len(PATTERN_MID)) = PATTERN_MID
              /\ EndsWith(NameOf(p), DOT_PDF)}

AttemptedOnceInOrder ==
    /\ Ascending(Attempts)
    /\ {Attempts[i] : i \in 1..Len(Attempts)} = Matching
    /\ Len(Attempts) = Cardinality(Matching)

\* C4 as stated: when the run is over every matching file was attempted
\* exactly once, in sorted path order, whatever failed before it, and every
\* file whose conversion succeeded has its output in its destination.
C4_EveryValidFileWritten ==
    pc = "done" =>
        /\ AttemptedOnceInOrder
        /\ \A i \in ConvertedLines :
              /\ console[i][3] \in DOMAIN files
              /\ files[console[i][3]] =
                    NewlineMarkerThenText(Lookup(console[i][2]).pages)

\* the part of C4 that the driver loop alone decides: no failure escapes, and
\* every matching file is attempted exactly once, in sorted order
C4_AttemptsOnly == pc # "crashed" /\ (pc = "done" => AttemptedOnceInOrder)

C4_AttemptsWitness ==
    /\ pc = "done"
    /\ Len(Attempts) = 3
    /\ console[2][1] = "Error converting"
    /\ console[3][1] = "Converted"
    /\ console[4][1] = "Error converting"

C5_WitnessNoMatch ==
    /\ pc = "done"
    /\ srcFiles # <<>>
    /\ pdf_files = <<>>
    /\ console = <<FoundLine(0), CompleteLine, SavedLine(text_dir)>>

InCall == pc \in {"open_src", "parse", "loop", "write", "report", "except",
                  "returned"}

\* id is the first `_`-delimited token of stem
IsFirstTokenOf(id, stem) ==
    /\ Len(id) <= Len(stem)
    /\ id = SubSeq(stem, 1, Len(id))
    /\ \A i \in 1..Len(id) : id[i] # "_"
    /\ Len(id) = Len(stem) \/ stem[Len(id) + 1] = "_"

\* C6: the destination of every file main hands to a conversion is the
\* output directory joined with ucie_spec_pages_<id>.txt, <id> the first
\* `_`-delimited token of the input name without its .pdf suffix; for
\* 005_PDFsam_UCIe_Specification_1.0.pdf it is ucie_spec_pages_005.txt.
C6_DestinationName ==
    InCall =>
        /\ DirOf(output_path) = text_dir
        /\ \E k \in 0..Len(NameOf(pdf_path)) :
              LET id == SubSeq(NameOf(pdf_path), 1, k)
                  stem == SubSeq(NameOf(pdf_path), 1,
                                 Len(NameOf(pdf_path)) - Len(DOT_PDF))
              IN /\ IsFirstTokenOf(id, stem)
                 /\ NameOf(output_path) = OUT_HEAD \o id \o DOT_TXT
        /\ NameOf(pdf_path) = N005_10 =>
              NameOf(output_path) =
                 <<"u", "c", "i", "e", "_", "s", "p", "e", "c", "_", "p", "a",
                   "g", "e", "s", "_", "0", "0", "5", ".", "t", "x", "t">>

C6_Witness ==
    /\ Succeeded
    /\ NameOf(pdf_path) = N005_10
    /\ output_path \in DOMAIN files
    /\ files[output_path] # OldText

C6_WitnessTwoUnderscores ==
    /\ Succeeded
    /\ NameOf(pdf_path) = N1_2
    /\ NameOf(output_path) = OUT_HEAD \o <<"1">> \o DOT_TXT

\* C7 as stated: the destinations of distinct input files of one run are
\* pairwise distinct: the run leaves one text file per successfully
\* converted input, none written over by another conversion of the run.
C7_DistinctDestinations ==
    /\ \A i, j \in ConvertedLines :
          console[i][2] # console[j][2] => console[i][3] # console[j][3]
    /\ InCall /\ idx >= 1 =>
          \A j \in 1..(idx - 1) : TextPath(pdf_files[j]) # output_path

====
